---- MODULE Spec2Model ----
(***************************************************************************)
(* price-track: one run of main() / track_once() of src/main.py.          *)
(*                                                                         *)
(* The run is sequential; every awaited call on an external collaborator  *)
(* (Kernel, Playwright, the file system, the webhook) is one step whose   *)
(* outcome (success or an exception) is chosen by the environment.        *)
(* Prices are small naturals; the catalog, the SLACK_WEBHOOK value, the   *)
(* ledger found on disk and the clock readings are the inputs.            *)
(***************************************************************************)
EXTENDS Naturals, Sequences, FiniteSets, TLC

VARIABLES
    products,        \* the catalog returned by load_products() (<<>> before)
    webhook,         \* value of the SLACK_WEBHOOK environment variable
    csv_exists,      \* CSV_PATH.exists()
    ledger,          \* rows of CSV_PATH, header row first
    snapshots,       \* files present under SNAPSHOT_DIR
    posts,           \* requests.post calls made, with the delivery outcome
    log,             \* lines printed, as <<level, catalog position>>
    clock,           \* last reading of the wall clock, in seconds
    kernel_browser,  \* the Kernel browser session: "none" | "created"
    browser,         \* the CDP connection: "none" | "connected" | "closed"
    page,            \* TRUE once context.new_page() has returned
    page_url,        \* url the shared page last loaded successfully (0: none)
    pc,              \* position of the run
    idx,             \* position of the for loop in the catalog (1-based)
    attempts,        \* extract_with_retry: parameter attempts
    attempt,         \* extract_with_retry: loop variable attempt
    last_error,      \* extract_with_retry: local last_error
    result,          \* value returned by extract_with_retry
    exc,             \* the exception being propagated, NoError if none
    screenshot_file, \* track_once: local screenshot_file
    calls,           \* extractor invocations made for the current product
    delays,          \* page.wait_for_timeout calls made for the current product
    navs,            \* page.goto calls made for the current product
    steps,           \* steps of the current product that have succeeded
    runs             \* runs of main() started so far

vars == <<products, webhook, csv_exists, ledger, snapshots, posts, log, clock,
          kernel_browser, browser, page, page_url, pc, idx, attempts, attempt,
          last_error, result, exc, screenshot_file, calls, delays, navs,
          steps, runs>>

----------------------------------------------------------------------------
(* Bounds of the model *)

MaxProducts == 2      \* longest catalog
MaxAttempts == 3      \* largest attempts argument given to extract_with_retry
MaxClock == 2         \* largest clock reading
MaxRuns == 2          \* most runs of main() made one after the other

(* Program constants *)

DefaultAttempts == 2  \* extract_with_retry(page, extractor, attempts=2)

----------------------------------------------------------------------------
(* Data *)

EXTRACTORS == {"books_to_scrape", "opencart_demo"}

Sites == EXTRACTORS \cup {"other_shop"}

AllKeys == {"name", "url", "target_price", "site"}

\* float(): the texts that parse, and their values; any other text raises
FloatTable == ("2" :> 2)

TargetTexts == {"2", "abc"}

FloatOk(text) == text \in DOMAIN FloatTable

FloatOf(text) == FloatTable[text]

Prices == {2, 3}

Product(i, t, s, k) ==
    [name |-> i, url |-> i, target_price |-> t, site |-> s, keys |-> k]

\* the records a catalog may hold at position i: well-formed ones, ones whose
\* target_price is not numeric, and ones with one key missing
ProductRecords(i) ==
    {Product(i, t, s, AllKeys) : t \in TargetTexts, s \in Sites}
      \cup {Product(i, "2", "books_to_scrape", AllKeys \ {k}) : k \in AllKeys}

Catalogs ==
    UNION {{c \in [1..n -> UNION {ProductRecords(i) : i \in 1..n}] :
               \A i \in 1..n : c[i] \in ProductRecords(i)} : n \in 0..MaxProducts}

Webhooks == {<<>>, <<" ">>, <<" ", "h", " ">>}

RECURSIVE LStrip(_)
LStrip(s) == IF s # <<>> /\ Head(s) = " " THEN LStrip(Tail(s)) ELSE s

RECURSIVE RStrip(_)
RStrip(s) ==
    IF s # <<>> /\ s[Len(s)] = " " THEN RStrip(SubSeq(s, 1, Len(s) - 1)) ELSE s

\* str.strip()
Strip(s) == RStrip(LStrip(s))

Header == [kind |-> "header"]

NoFile == <<0, "">>

Row(ts, p, title, price, target, shot) ==
    [kind |-> "row", timestamp |-> ts, product_name |-> p.name,
     page_title |-> title, url |-> p.url, price |-> price,
     target_price |-> target, screenshot_path |-> shot]

\* a row left by an earlier run
OldRow ==
    [kind |-> "row", timestamp |-> 0, product_name |-> 0, page_title |-> 0,
     url |-> 0, price |-> 3, target_price |-> 2,
     screenshot_path |-> <<0, "books_to_scrape">>]

Error(src, kind, n) == [src |-> src, kind |-> kind, attempt |-> n]

NoError == Error("none", "-", 0)

NoResult == [title |-> 0, price |-> 0, attempt |-> 0]

ErrorKinds == {"timeout", "other"}

IsPrefix(s, t) == Len(s) <= Len(t) /\ SubSeq(t, 1, Len(s)) = s

----------------------------------------------------------------------------
(* Initial state: main() is about to start *)

Init ==
    /\ products = <<>>
    /\ webhook \in Webhooks
    /\ csv_exists \in BOOLEAN
    /\ ledger = IF csv_exists THEN <<Header, OldRow>> ELSE <<>>
    /\ snapshots = IF csv_exists THEN {OldRow.screenshot_path} ELSE {}
    /\ posts = <<>>
    /\ log = <<>>
    /\ clock = 1
    /\ kernel_browser = "none"
    /\ browser = "none"
    /\ page = FALSE
    /\ page_url = 0
    /\ pc = "main"
    /\ idx = 1
    /\ attempts = DefaultAttempts
    /\ attempt = 0
    /\ last_error = NoError
    /\ result = NoResult
    /\ exc = NoError
    /\ screenshot_file = NoFile
    /\ calls = 0
    /\ delays = 0
    /\ navs = 0
    /\ steps = <<>>
    /\ runs = 1

retry_vars == <<attempts, attempt, last_error, result, calls, delays>>

disk_vars == <<csv_exists, ledger, snapshots>>

\* what a run of main() finds and does not change
env_vars == <<webhook, runs>>

\* the steps of one product, in the order of lines 104-118
StepOrder == <<"navigate", "idle", "extract", "snapshot", "persist", "notify">>

\* step s of the current product has succeeded
StepDone(s) == steps' = Append(steps, s)

\* an exception that nothing catches ends the run
Abort(e) == pc' = "aborted" /\ exc' = e

\* mutant: the per-product try block does not cover the failing call
RaiseEscapes(e) == pc' = "finally" /\ exc' = e

\* an exception raised inside the per-product try block (lines 103-118)
RaiseInProduct(e) == pc' = "except" /\ exc' = e

\* an exception raised inside the outer try block but outside the per-product
\* try block (lines 88-100): only the finally clause sees it
RaiseInRun(e) == pc' = "finally" /\ exc' = e

----------------------------------------------------------------------------
(* main(), lines 133-143 *)

\* kernel.browsers.create()
KernelCreate ==
    /\ pc = "main"
    /\ \/ /\ kernel_browser' = "created"
          /\ pc' = "load"
          /\ exc' = exc
       \/ /\ Abort(Error("kernel", "-", 0))
          /\ kernel_browser' = kernel_browser
    /\ UNCHANGED <<products, env_vars, steps, disk_vars, posts, log, clock, browser,
                   page, page_url, idx, retry_vars, screenshot_file, navs>>

\* load_products(): the file is read and parsed, or the call raises
LoadProducts ==
    /\ pc = "load"
    /\ \/ /\ products' \in Catalogs
          /\ pc' = "ensure"
          /\ exc' = exc
       \/ /\ Abort(Error("catalog", "-", 0))
          /\ products' = products
    /\ UNCHANGED <<env_vars, steps, disk_vars, posts, log, clock, kernel_browser,
                   browser, page, page_url, idx, retry_vars, screenshot_file,
                   navs>>

\* mutant: the file is opened with "w" whether it exists or not
EnsuredTruncating(exists, rows) == <<Header>>

\* the ledger file after ensure_storage() has run
EnsuredLedger(exists, rows) == IF exists THEN rows ELSE <<Header>>

\* ensure_storage(), lines 43-49: it returns; or mkdir or open raises and
\* nothing has changed; or open(CSV_PATH, "w") has created the file and writing
\* the header row raises (the disk is full), which leaves the file empty
EnsureStorage ==
    /\ pc = "ensure"
    /\ \/ /\ ledger' = EnsuredLedger(csv_exists, ledger)
          /\ csv_exists' = TRUE
          /\ pc' = "connect"
          /\ exc' = exc
       \/ /\ Abort(Error("storage", "-", 0))
          /\ UNCHANGED <<csv_exists, ledger>>
       \/ /\ ~csv_exists
          /\ Abort(Error("storage", "-", 0))
          /\ csv_exists' = TRUE
          /\ ledger' = <<>>
    /\ UNCHANGED <<products, env_vars, steps, snapshots, posts, log, clock,
                   kernel_browser, browser, page, page_url, idx, retry_vars,
                   screenshot_file, navs>>

\* async_playwright() and pw.chromium.connect_over_cdp(), lines 85-86
Connect ==
    /\ pc = "connect"
    /\ \/ /\ browser' = "connected"
          /\ pc' = "context"
          /\ exc' = exc
       \/ /\ Abort(Error("connect", "-", 0))
          /\ browser' = browser
    /\ UNCHANGED <<products, env_vars, steps, disk_vars, posts, log, clock,
                   kernel_browser, page, page_url, idx, retry_vars,
                   screenshot_file, navs>>

\* browser.new_context() and context.new_page(), lines 88-89
NewPage ==
    /\ pc = "context"
    /\ \/ /\ page' = TRUE
          /\ pc' = "loop"
          /\ exc' = exc
       \/ /\ RaiseInRun(Error("context", "-", 0))
          /\ page' = page
    /\ UNCHANGED <<products, env_vars, steps, disk_vars, posts, log, clock,
                   kernel_browser, browser, page_url, idx, retry_vars,
                   screenshot_file, navs>>

----------------------------------------------------------------------------
(* track_once(): the for loop, lines 91-121 *)

\* lines 92-95 raise KeyError on a missing key and ValueError on a
\* target_price that float() rejects
FieldsOk(p) == p.keys = AllKeys /\ FloatOk(p.target_price)

\* EXTRACTORS.get(site) is not None
HasExtractor(site) == site \in EXTRACTORS

InLoop == pc = "loop" /\ idx <= Len(products)

\* the for loop has run out of products: the try block ends normally
LoopEnd ==
    /\ pc = "loop"
    /\ idx > Len(products)
    /\ pc' = "finally"
    /\ UNCHANGED <<products, env_vars, steps, disk_vars, posts, log, clock,
                   kernel_browser, browser, page, page_url, idx, retry_vars,
                   exc, screenshot_file, navs>>

\* lines 92-95 raise: the exception is outside the per-product try block
ReadFieldsFail ==
    /\ InLoop
    /\ ~FieldsOk(products[idx])
    /\ RaiseInRun(Error("fields", "-", 0))
    /\ UNCHANGED <<products, env_vars, steps, disk_vars, posts, log, clock,
                   kernel_browser, browser, page, page_url, idx, retry_vars,
                   screenshot_file, navs>>

\* lines 97-100: no extractor for the site, continue
SkipProduct ==
    /\ InLoop
    /\ FieldsOk(products[idx])
    /\ ~HasExtractor(products[idx].site)
    /\ log' = Append(log, <<"skip", idx>>)
    /\ idx' = idx + 1
    /\ calls' = 0 /\ delays' = 0 /\ navs' = 0
    /\ result' = NoResult
    /\ steps' = <<>>
    /\ UNCHANGED <<products, env_vars, disk_vars, posts, clock, kernel_browser,
                   browser, page, page_url, pc, attempts, attempt, last_error,
                   exc, screenshot_file>>

\* lines 97-102: the extractor is found, the product is visited
StartProduct ==
    /\ InLoop
    /\ FieldsOk(products[idx])
    /\ HasExtractor(products[idx].site)
    /\ log' = Append(log, <<"info", idx>>)
    /\ pc' = "goto"
    /\ calls' = 0 /\ delays' = 0 /\ navs' = 0
    /\ result' = NoResult
    /\ steps' = <<>>
    /\ UNCHANGED <<products, env_vars, disk_vars, posts, clock, kernel_browser,
                   browser, page, page_url, idx, attempts, attempt, last_error,
                   exc, screenshot_file>>

\* mutant: a failure of page.goto() is ignored, the page stays where it was
GotoUnchecked ==
    /\ pc = "goto"
    /\ navs' = navs + 1
    /\ \/ page_url' = products[idx].url
       \/ page_url' = page_url
    /\ pc' = "idle"
    /\ exc' = exc
    /\ StepDone("navigate")
    /\ UNCHANGED <<products, env_vars, disk_vars, posts, log, clock,
                   kernel_browser, browser, page, idx, retry_vars,
                   screenshot_file>>

\* page.goto(), line 104
Goto ==
    /\ pc = "goto"
    /\ navs' = navs + 1
    /\ \/ /\ page_url' = products[idx].url
          /\ pc' = "idle"
          /\ exc' = exc
          /\ StepDone("navigate")
       \/ /\ RaiseInProduct(Error("goto", "timeout", 0))
          /\ page_url' = page_url
          /\ steps' = steps
    /\ UNCHANGED <<products, env_vars, disk_vars, posts, log, clock,
                   kernel_browser, browser, page, idx, retry_vars,
                   screenshot_file>>

\* mutant: a timeout of the network-idle wait is ignored
WaitLoadStateUnchecked ==
    /\ pc = "idle"
    /\ pc' = "extract"
    /\ attempts' = DefaultAttempts
    /\ attempt' = 1
    /\ last_error' = NoError
    /\ exc' = exc
    /\ \/ StepDone("idle")
       \/ steps' = steps
    /\ UNCHANGED <<products, env_vars, disk_vars, posts, log, clock,
                   kernel_browser, browser, page, page_url, idx, result,
                   screenshot_file, calls, delays, navs>>

\* page.wait_for_load_state("networkidle"), line 105; on success
\* extract_with_retry is entered with the default attempts (lines 107, 69-70)
WaitLoadState ==
    /\ pc = "idle"
    /\ \/ /\ pc' = "extract"
          /\ attempts' = DefaultAttempts
          /\ attempt' = 1
          /\ last_error' = NoError
          /\ exc' = exc
          /\ StepDone("idle")
       \/ /\ RaiseInProduct(Error("idle", "timeout", 0))
          /\ UNCHANGED <<attempts, attempt, last_error, steps>>
    /\ UNCHANGED <<products, env_vars, disk_vars, posts, log, clock,
                   kernel_browser, browser, page, page_url, idx, result,
                   screenshot_file, calls, delays, navs>>

----------------------------------------------------------------------------
(* extract_with_retry(), lines 69-80 *)

\* one pass of the try block, lines 72-75 and 77-78: the extractor returns
\* the title of the loaded page and a price, or raises
ExtractAttempt ==
    /\ pc = "extract"
    /\ attempt <= attempts
    /\ calls' = calls + 1
    /\ \/ /\ \E price \in Prices :
                result' = [title |-> page_url, price |-> price,
                           attempt |-> attempt]
          /\ pc' = "snapshot"
          /\ last_error' = last_error
          /\ StepDone("extract")
       \/ /\ \E kind \in ErrorKinds :
                last_error' = Error("extract", kind, attempt)
          /\ pc' = "delay"
          /\ result' = result
          /\ steps' = steps
    /\ UNCHANGED <<products, env_vars, disk_vars, posts, log, clock,
                   kernel_browser, browser, page, page_url, idx, attempts,
                   attempt, exc, screenshot_file, delays, navs>>

\* TRUE when the for loop of line 71 has another pass to make
MoreAttempts(k, n) == k < n

\* mutant: the page is loaded again before the next attempt
RetryRenavigates ==
    /\ pc = "delay"
    /\ delays' = delays + 1
    /\ \/ /\ attempt < attempts
          /\ attempt' = attempt + 1
          /\ navs' = navs + 1
          /\ pc' = "extract"
          /\ exc' = exc
       \/ /\ ~(attempt < attempts)
          /\ pc' = "except"
          /\ exc' = last_error
          /\ attempt' = attempt
          /\ navs' = navs
    /\ UNCHANGED <<products, env_vars, steps, disk_vars, posts, log, clock,
                   kernel_browser, browser, page, page_url, idx, attempts,
                   last_error, result, screenshot_file, calls>>

\* mutant: the except clauses do not wait
RetryNoDelay ==
    /\ pc = "delay"
    /\ \/ /\ attempt < attempts
          /\ attempt' = attempt + 1
          /\ pc' = "extract"
          /\ exc' = exc
       \/ /\ ~(attempt < attempts)
          /\ pc' = "except"
          /\ exc' = last_error
          /\ attempt' = attempt
    /\ UNCHANGED <<products, env_vars, steps, csv_exists, ledger, snapshots, posts,
                   log, clock, kernel_browser, browser, page, page_url, idx,
                   attempts, last_error, result, screenshot_file, calls,
                   delays, navs>>

\* page.wait_for_timeout(1000) in either except clause, lines 76 and 79, then
\* the next pass of the loop, or raise last_error (line 80) after the last
RetryDelay ==
    /\ pc = "delay"
    /\ delays' = delays + 1
    /\ \/ /\ MoreAttempts(attempt, attempts)
          /\ attempt' = attempt + 1
          /\ pc' = "extract"
          /\ exc' = exc
       \/ /\ ~MoreAttempts(attempt, attempts)
          /\ RaiseInProduct(last_error)
          /\ attempt' = attempt
       \/ /\ RaiseInProduct(Error("delay", "other", attempt))
          /\ attempt' = attempt
    /\ UNCHANGED <<products, env_vars, steps, disk_vars, posts, log, clock,
                   kernel_browser, browser, page, page_url, idx, attempts,
                   last_error, result, screenshot_file, calls, navs>>

----------------------------------------------------------------------------
(* track_once(): snapshot, ledger row, alert; lines 109-121 *)

\* mutant: a failure of page.screenshot() is ignored
ScreenshotUnchecked ==
    /\ pc = "snapshot"
    /\ \E t \in clock..MaxClock :
          /\ t <= clock + 1
          /\ clock' = t
          /\ screenshot_file' = <<t, products[idx].site>>
    /\ \/ snapshots' = snapshots \cup {screenshot_file'}
       \/ snapshots' = snapshots
    /\ pc' = "append"
    /\ exc' = exc
    /\ StepDone("snapshot")
    /\ UNCHANGED <<products, env_vars, csv_exists, ledger, posts, log,
                   kernel_browser, browser, page, page_url, idx, retry_vars,
                   navs>>

\* now_iso(), time.time() and page.screenshot(), lines 109-111: the clock is
\* read, it never runs backwards
Screenshot ==
    /\ pc = "snapshot"
    /\ \E t \in clock..MaxClock :
          /\ t <= clock + 1
          /\ clock' = t
          /\ screenshot_file' = <<t, products[idx].site>>
    /\ \/ /\ snapshots' = snapshots \cup {screenshot_file'}
          /\ pc' = "append"
          /\ exc' = exc
          /\ StepDone("snapshot")
       \/ /\ RaiseInProduct(Error("screenshot", "other", 0))
          /\ snapshots' = snapshots
          /\ steps' = steps
    /\ UNCHANGED <<products, env_vars, csv_exists, ledger, posts, log,
                   kernel_browser, browser, page, page_url, idx, retry_vars,
                   navs>>

\* mutant: the row is written at the head of the file
Prepended(rows, row) == <<row>> \o rows

\* mutant: the file is opened with "w"
Rewritten(rows, row) == <<row>>

\* the file after open(CSV_PATH, "a") and writer.writerow(row)
Appended(rows, row) == Append(rows, row)

\* lines 113-117: the row is appended and "[ok]" printed, or open/write raises
AppendRow ==
    /\ pc = "append"
    /\ \/ /\ ledger' = Appended(ledger,
                          Row(screenshot_file[1], products[idx], result.title,
                              result.price, FloatOf(products[idx].target_price),
                              screenshot_file))
          /\ log' = Append(log, <<"ok", idx>>)
          /\ pc' = "notify"
          /\ exc' = exc
          /\ StepDone("persist")
       \/ /\ RaiseInProduct(Error("append", "other", 0))
          /\ UNCHANGED <<ledger, log, steps>>
    /\ UNCHANGED <<products, env_vars, csv_exists, snapshots, posts, clock,
                   kernel_browser, browser, page, page_url, idx, retry_vars,
                   screenshot_file, navs>>

\* mutant: price < target_price
ShouldNotifyBelow(w, price, target) == Strip(w) # <<>> /\ price < target

\* line 61: webhook and price <= target_price, webhook being stripped
ShouldNotify(w, price, target) == Strip(w) # <<>> /\ price <= target

Responses == {"2xx", "non2xx", "neterr"}

\* requests.post raises on a network error and returns any HTTP response
PostRaises(response) == response = "neterr"

\* notify_if_needed(), lines 58-67, and the end of the loop body
Notify ==
    /\ pc = "notify"
    /\ IF ShouldNotify(webhook, result.price, FloatOf(products[idx].target_price))
       THEN \E response \in Responses :
               /\ posts' = Append(posts,
                              [product_name |-> products[idx].name,
                               url |-> products[idx].url,
                               price |-> result.price,
                               target_price |-> FloatOf(products[idx].target_price),
                               response |-> response])
               /\ log' = IF PostRaises(response)
                         THEN Append(log, <<"warn", idx>>)
                         ELSE log
       ELSE UNCHANGED <<posts, log>>
    /\ StepDone("notify")
    /\ idx' = idx + 1
    /\ pc' = "loop"
    /\ UNCHANGED <<products, env_vars, disk_vars, clock, kernel_browser,
                   browser, page, page_url, retry_vars, exc, screenshot_file,
                   navs>>

\* mutant: the except clause also closes the browser
ExceptProductCloses ==
    /\ pc = "except"
    /\ log' = Append(log, <<"error", idx>>)
    /\ exc' = NoError
    /\ idx' = idx + 1
    /\ pc' = "loop"
    /\ browser' = "closed"
    /\ UNCHANGED <<products, env_vars, steps, disk_vars, posts, clock,
                   kernel_browser, page, page_url, retry_vars,
                   screenshot_file, navs>>

\* except Exception, lines 120-121: the error is printed, the loop goes on
ExceptProduct ==
    /\ pc = "except"
    /\ log' = Append(log, <<"error", idx>>)
    /\ exc' = NoError
    /\ idx' = idx + 1
    /\ pc' = "loop"
    /\ UNCHANGED <<products, env_vars, steps, disk_vars, posts, clock, kernel_browser,
                   browser, page, page_url, retry_vars, screenshot_file, navs>>

\* finally: browser.close(), lines 123-124; a pending exception then leaves
\* track_once and main
BrowserClose ==
    /\ pc = "finally"
    /\ browser' = "closed"
    /\ pc' = IF exc = NoError THEN "done" ELSE "aborted"
    /\ UNCHANGED <<products, env_vars, steps, disk_vars, posts, log, clock,
                   kernel_browser, page, page_url, idx, retry_vars, exc,
                   screenshot_file, navs>>

----------------------------------------------------------------------------
(* Specifications *)

\* main() has ended, normally or with an exception
RunOver == pc \in {"done", "aborted"}

Next ==
    \/ KernelCreate
    \/ LoadProducts
    \/ EnsureStorage
    \/ Connect
    \/ NewPage
    \/ LoopEnd
    \/ ReadFieldsFail
    \/ SkipProduct
    \/ StartProduct
    \/ Goto
    \/ WaitLoadState
    \/ ExtractAttempt
    \/ RetryDelay
    \/ Screenshot
    \/ AppendRow
    \/ Notify
    \/ ExceptProduct
    \/ BrowserClose

\* one run of main()
Spec == Init /\ [][Next]_vars

\* main() is run again, later, on the disk the earlier runs left
Restart ==
    /\ RunOver
    /\ runs < MaxRuns
    /\ runs' = runs + 1
    /\ products' = <<>>
    /\ posts' = <<>>
    /\ log' = <<>>
    /\ kernel_browser' = "none"
    /\ browser' = "none"
    /\ page' = FALSE
    /\ page_url' = 0
    /\ pc' = "main"
    /\ idx' = 1
    /\ attempts' = DefaultAttempts
    /\ attempt' = 0
    /\ last_error' = NoError
    /\ result' = NoResult
    /\ exc' = NoError
    /\ screenshot_file' = NoFile
    /\ calls' = 0
    /\ delays' = 0
    /\ navs' = 0
    /\ steps' = <<>>
    /\ UNCHANGED <<webhook, disk_vars, clock>>

NextRuns == Next \/ Restart

\* up to MaxRuns runs of main(), one after the other, on the same disk
SpecRuns == Init /\ [][NextRuns]_vars

\* extract_with_retry called on a loaded page with any attempts >= 1
InitRetry ==
    /\ products = <<>>
    /\ webhook = <<>>
    /\ csv_exists = FALSE
    /\ ledger = <<>>
    /\ snapshots = {}
    /\ posts = <<>>
    /\ log = <<>>
    /\ clock = 1
    /\ kernel_browser = "created"
    /\ browser = "connected"
    /\ page = TRUE
    /\ page_url \in 1..MaxProducts
    /\ pc = "extract"
    /\ idx = 1
    /\ attempts \in 1..MaxAttempts
    /\ attempt = 1
    /\ last_error = NoError
    /\ result = NoResult
    /\ exc = NoError
    /\ screenshot_file = NoFile
    /\ calls = 0
    /\ delays = 0
    /\ navs = 0
    /\ steps = <<"navigate", "idle">>
    /\ runs = 1

NextRetry == ExtractAttempt \/ RetryDelay

SpecRetry == InitRetry /\ [][NextRetry]_vars

----------------------------------------------------------------------------
(* Observations used by the properties *)

\* the loop has finished with catalog position j
Finished(j) == j < idx

\* positions of the ledger rows written for catalog position j
RowsOf(j) ==
    {k \in DOMAIN ledger :
        ledger[k].kind = "row" /\ ledger[k].product_name = products[j].name}

\* positions of the alert requests made for catalog position j
PostsOf(j) == {k \in DOMAIN posts : posts[k].product_name = products[j].name}

LogHas(level, j) == \E k \in DOMAIN log : log[k] = <<level, j>>

\* the site key of the record is present and has no extractor
Unregistered(p) == "site" \in p.keys /\ p.site \notin EXTRACTORS

\* extract_with_retry has returned for the product the counters belong to
Extracted == result # NoResult

\* the first invocation failed and a later one returned
FailedThenSucceeded ==
    Extracted /\ last_error.src = "extract" /\ last_error.attempt = 1

\* the loop has just finished with position idx - 1
JustFinished == pc = "loop" /\ idx > 1

----------------------------------------------------------------------------
(* C1 *)

\* C1 (as claimed): when the run is over, for every catalog and every position
\* in it, a product whose site key is not in EXTRACTORS was not visited, has no
\* snapshot, no ledger row and no alert, its skip was logged, and the loop has
\* gone through every later catalog entry.
C1_UnregisteredSkipped ==
    (RunOver /\ page) =>
        \A j \in 1..Len(products) :
            Unregistered(products[j]) =>
                /\ ~LogHas("info", j)
                /\ \A f \in snapshots : f[2] # products[j].site
                /\ RowsOf(j) = {}
                /\ PostsOf(j) = {}
                /\ LogHas("skip", j)
                /\ \A m \in (j + 1)..Len(products) : Finished(m)

----------------------------------------------------------------------------
(* C2 *)

ProductFailures == {"goto", "idle", "extract", "delay", "screenshot", "append"}

\* C2: a failure of navigation, of the network-idle wait, of extraction once
\* the retries are exhausted, of the snapshot or of the ledger append always
\* lands in the product's except clause; the failing step writes no ledger
\* row and makes no alert request, no row or alert exists for that product,
\* the rows written before are untouched, and the except clause moves the
\* loop to the next catalog entry.
C2_FailureIsolation ==
    /\ [](exc.src \in ProductFailures => pc = "except")
    /\ [](\A j \in 1..Len(products) :
            LogHas("error", j) => RowsOf(j) = {} /\ PostsOf(j) = {})
    /\ [][/\ pc' = "except" =>
                /\ ledger' = ledger
                /\ posts' = posts
                /\ RowsOf(idx) = {}
                /\ PostsOf(idx) = {}
          /\ pc = "except" =>
                /\ pc' = "loop"
                /\ idx' = idx + 1
                /\ ledger' = ledger
                /\ posts' = posts
                /\ exc' = NoError]_vars

\* a second product's extraction has failed on every attempt after the first
\* product's row was written, and the loop has moved on past it
C2_Witness ==
    /\ pc = "loop"
    /\ idx = 3
    /\ RowsOf(1) # {}
    /\ LogHas("error", 2)
    /\ ~Extracted
    /\ calls = DefaultAttempts

----------------------------------------------------------------------------
(* C3 *)

\* C3 (as claimed): a run whose storage, session, context and page were set
\* up ends normally, and only after the loop has gone through every catalog
\* entry, whatever any entry's record holds.
C3_EveryProductAttempted ==
    (RunOver /\ page) => (pc = "done" /\ idx > Len(products))

----------------------------------------------------------------------------
(* C4 *)

\* C4 (as claimed): whenever the run is over and a browser session had been
\* acquired from Kernel, the session has been closed.
C4_SessionClosedOnExit ==
    (RunOver /\ kernel_browser = "created") => browser = "closed"

----------------------------------------------------------------------------
(* C5 *)

\* C5: an alert request exists for a catalog position exactly when the loop
\* has finished with it, its row is in the ledger, the row's price is at most
\* its target price and the stripped webhook is not empty; there is never more
\* than one request per position; with no webhook configured no request is
\* made and nothing is logged as a warning or an error for a product whose
\* row was written.
C5_AlertIffThreshold ==
    \A j \in 1..Len(products) :
        /\ PostsOf(j) # {} <=>
              /\ Finished(j)
              /\ Strip(webhook) # <<>>
              /\ \E k \in RowsOf(j) : ledger[k].price <= ledger[k].target_price
        /\ Cardinality(PostsOf(j)) <= 1
        /\ Strip(webhook) = <<>> =>
              /\ posts = <<>>
              /\ ~LogHas("warn", j)
              /\ RowsOf(j) # {} => ~LogHas("error", j)

\* two products have been processed with a webhook configured: the first, at
\* its target price, got an alert; the second, above its target, got none
C5_Witness ==
    /\ pc = "loop"
    /\ idx = 3
    /\ \E k \in RowsOf(1) : ledger[k].price = ledger[k].target_price
    /\ PostsOf(1) # {}
    /\ \E k \in RowsOf(2) : ledger[k].price > ledger[k].target_price
    /\ PostsOf(2) = {}

----------------------------------------------------------------------------
(* C6 *)

\* C6 (as claimed): every alert request whose delivery failed, by a network
\* error or by a non-2xx response, has a warning in the log, no per-product
\* error in the log, and its product's ledger row is still there.
C6_DeliveryFailureWarned ==
    \A k \in DOMAIN posts :
        posts[k].response # "2xx" =>
            /\ \E j \in 1..Len(products) :
                  /\ products[j].name = posts[k].product_name
                  /\ LogHas("warn", j)
                  /\ ~LogHas("error", j)
                  /\ RowsOf(j) # {}

----------------------------------------------------------------------------
(* C7 *)

\* C7 (as claimed): with the default 2 attempts, once the loop has finished
\* with a product whose extractor failed on the first invocation and returned
\* on the second, the returned result is the second invocation's, there were
\* exactly two invocations and one delay, and exactly one ledger row was
\* written for that product.
C7_OneRowAfterRetry ==
    (JustFinished /\ FailedThenSucceeded) =>
        /\ result.attempt = 2
        /\ calls = 2
        /\ delays = 1
        /\ Cardinality(RowsOf(idx - 1)) = 1

\* C7 (amended): with the default 2 attempts, whenever the extractor failed on
\* the first invocation and a later one returned, the returned result is the
\* second invocation's, after exactly two invocations and one delay; once the
\* loop has finished with that product, no ledger row was written for it if
\* its snapshot or its append failed, and exactly one otherwise.
C7_RetryThenAtMostOneRow ==
    FailedThenSucceeded =>
        /\ result.attempt = 2
        /\ calls = 2
        /\ delays = 1
        /\ JustFinished =>
              Cardinality(RowsOf(idx - 1)) =
                  IF LogHas("error", idx - 1) THEN 0 ELSE 1

\* a product extracted on the second attempt has its one row in the ledger
C7_Witness ==
    /\ JustFinished
    /\ FailedThenSucceeded
    /\ result.attempt = 2
    /\ Cardinality(RowsOf(idx - 1)) = 1

----------------------------------------------------------------------------
(* C8 *)

\* extract_with_retry has raised after every one of its attempts failed
Exhausted == pc = "except" /\ ~Extracted /\ calls = attempts

\* C8 (as claimed): when extract_with_retry raises the extractor's error after
\* all N attempts failed, exactly N-1 delays have been made.
C8_DelaysOnlyBetweenAttempts ==
    (Exhausted /\ exc.src = "extract") => delays = attempts - 1

----------------------------------------------------------------------------
(* C9 *)

\* C9 (as claimed): the extractor is invoked at most N times, never again
\* after an invocation has returned, and when all N invocations have failed
\* the error raised is the one the N-th invocation raised.
C9_LastErrorPropagated ==
    /\ calls <= attempts
    /\ Extracted => (pc = "snapshot" /\ calls = result.attempt)
    /\ Exhausted => (exc = last_error /\ last_error.attempt = attempts)

----------------------------------------------------------------------------
(* C10 *)

\* C10 (as claimed): once the loop has finished with a product whose
\* extraction succeeded, exactly one ledger row has been written for it, and
\* no step ever changes a row already written.
C10_OneRowPerExtraction ==
    /\ [](JustFinished /\ Extracted => Cardinality(RowsOf(idx - 1)) = 1)
    /\ [][IsPrefix(ledger, ledger')]_vars

\* C10 (amended): no product ever has more than one ledger row; once the loop
\* has finished with a product whose extraction succeeded, it has exactly one
\* row if its snapshot and its append succeeded too and none otherwise; and no
\* step ever changes a row already written.
C10_OneRowPerObservation ==
    /\ [](\A j \in 1..Len(products) : Cardinality(RowsOf(j)) <= 1)
    /\ [](JustFinished /\ Extracted =>
            Cardinality(RowsOf(idx - 1)) =
                IF LogHas("error", idx - 1) THEN 0 ELSE 1)
    /\ [][IsPrefix(ledger, ledger')]_vars

\* two products extracted on the first attempt have one row each, after the
\* row an earlier run left
C10_Witness ==
    /\ pc = "done"
    /\ Len(products) = 2
    /\ Len(ledger) = 4
    /\ ledger[2] = OldRow
    /\ Cardinality(RowsOf(1)) = 1
    /\ Cardinality(RowsOf(2)) = 1

----------------------------------------------------------------------------
(* C11 *)

\* an observation row is present in the ledger
HasRows == \E k \in DOMAIN ledger : ledger[k].kind = "row"

\* C11 (as claimed): over any sequence of runs, every step leaves the ledger
\* it found as a prefix of the ledger it leaves, and whenever an observation
\* row is present the header row is the first row of the ledger.
C11_AppendOnlyWithHeader ==
    /\ [][IsPrefix(ledger, ledger')]_vars
    /\ [](HasRows => ledger[1] = Header)

----------------------------------------------------------------------------
(* C12 *)

\* C12: on whatever ledger the run has, absent or holding rows, a call of
\* ensure_storage followed by a second call leaves the ledger the first call
\* leaves; a call on an existing ledger changes nothing (no second header, no
\* row lost); and the ledger a returned call has just left is one that a
\* further call leaves as it is.
C12_EnsureStorageIdempotent ==
    LET once == EnsuredLedger(csv_exists, ledger)
        twice == EnsuredLedger(TRUE, once)
    IN  /\ twice = once
        /\ csv_exists => once = ledger
        /\ ~csv_exists => once = <<Header>>
        /\ pc = "connect" => (csv_exists /\ once = ledger)

\* ensure_storage has just returned on a ledger that holds a row
C12_Witness ==
    /\ pc = "connect"
    /\ csv_exists
    /\ ledger = <<Header, OldRow>>

----------------------------------------------------------------------------
(* C13 *)

\* positions of the ledger rows this run has appended (an earlier run's rows
\* carry the name 0)
RunRows == {k \in DOMAIN ledger : ledger[k].kind = "row" /\ ledger[k].product_name >= 1}

\* C13: of any two rows this run has appended, the one that comes first in the
\* ledger belongs to the product declared earlier in the catalog.
C13_RowsInCatalogOrder ==
    \A k1 \in RunRows : \A k2 \in RunRows :
        k1 < k2 => ledger[k1].product_name < ledger[k2].product_name

\* both products of a catalog have their rows, after the row of an earlier run
C13_Witness ==
    /\ Len(products) = 2
    /\ Cardinality(RunRows) = 2
    /\ ledger[2] = OldRow
    /\ ledger[3].product_name = 1
    /\ ledger[4].product_name = 2

----------------------------------------------------------------------------
(* C14 *)

\* C14: the snapshot path recorded in any ledger row is a file that exists
\* under SNAPSHOT_DIR, at every moment from the append to the end of the run;
\* and when the row is about to be appended its snapshot has been written.
C14_SnapshotReferenceIntegrity ==
    /\ \A k \in DOMAIN ledger :
          ledger[k].kind = "row" => ledger[k].screenshot_path \in snapshots
    /\ pc \in {"append", "notify"} => screenshot_file \in snapshots

\* the run has completed with a row whose snapshot is on disk
C14_Witness ==
    /\ pc = "done"
    /\ \E k \in RunRows :
          /\ ledger[k].screenshot_path = <<clock, products[1].site>>
          /\ ledger[k].screenshot_path \in snapshots

----------------------------------------------------------------------------
(* C15 *)

\* C15 (as claimed): two different rows appended in one run never reference
\* the same snapshot path, whatever the sites of their products and the clock
\* seconds of their snapshots (so that the snapshot files the rows of the run
\* refer to are as many as the rows).
C15_OwnSnapshotPerRow ==
    \A k1 \in RunRows : \A k2 \in RunRows :
        k1 # k2 => ledger[k1].screenshot_path # ledger[k2].screenshot_path

----------------------------------------------------------------------------
(* C16 *)

\* the first n steps of a product
FirstSteps(n) == SubSeq(StepOrder, 1, n)

\* C16: the steps that have succeeded for the current product are always an
\* initial part of Navigate, network-idle wait, Extract, Snapshot, Persist,
\* Notify; a step is about to run only when all the steps before it have
\* succeeded; the row is appended only once its snapshot is on disk; and an
\* alert request exists only for a product whose row is in the ledger.
C16_StepOrder ==
    /\ IsPrefix(steps, StepOrder)
    /\ pc = "goto" => steps = FirstSteps(0)
    /\ pc = "idle" => steps = FirstSteps(1)
    /\ pc \in {"extract", "delay"} => steps = FirstSteps(2)
    /\ pc = "snapshot" => steps = FirstSteps(3)
    /\ pc = "append" => (steps = FirstSteps(4) /\ screenshot_file \in snapshots)
    /\ pc = "notify" => (steps = FirstSteps(5) /\ RowsOf(idx) # {})
    /\ \A j \in 1..Len(products) : PostsOf(j) # {} => RowsOf(j) # {}

\* a product has gone through all six steps and its alert has been requested
C16_Witness ==
    /\ JustFinished
    /\ steps = StepOrder
    /\ PostsOf(idx - 1) # {}
    /\ RowsOf(idx - 1) # {}

----------------------------------------------------------------------------
(* C17 *)

\* visits of catalog position j begun in this run ("[info] Visiting" lines)
VisitsOf(j) == {k \in DOMAIN log : log[k] = <<"info", j>>}

\* C17: in one run every catalog entry is visited at most once and page.goto
\* is called at most once for it, whatever fails; while the extractor is being
\* tried and retried, exactly one navigation has been made for the product
\* and the page is the one that navigation loaded.
C17_SingleNavigation ==
    /\ navs <= 1
    /\ \A j \in 1..Len(products) : Cardinality(VisitsOf(j)) <= 1
    /\ calls >= 1 => navs = 1
    /\ pc \in {"extract", "delay"} =>
          /\ navs = 1
          /\ page_url = products[idx].url

\* the second product's extractor has been retried after a failure, on the
\* one navigation made for it
C17_Witness ==
    /\ pc = "extract"
    /\ idx = 2
    /\ attempt = 2
    /\ calls = 1
    /\ navs = 1
    /\ page_url = products[2].url

----------------------------------------------------------------------------
(* C18 *)

\* C18: whenever the extractor is about to be invoked, the navigation and the
\* network-idle wait of the current product have both succeeded in this
\* iteration and the shared page holds that product's url; the result in hand
\* was extracted from that page; and every row this run has appended carries
\* the title of the page of its own product.
C18_OwnPageExtracted ==
    /\ pc = "extract" =>
          /\ steps = <<"navigate", "idle">>
          /\ page_url = products[idx].url
    /\ pc \in {"snapshot", "append", "notify"} =>
          result.title = products[idx].url
    /\ \A k \in RunRows : ledger[k].page_title = ledger[k].url

\* the shared page, used for the first product's row, has then given the
\* second product's row its own title
C18_Witness ==
    /\ Len(products) = 2
    /\ \E k \in RowsOf(1) : ledger[k].page_title = products[1].url
    /\ \E k \in RowsOf(2) : ledger[k].page_title = products[2].url
    /\ page_url = products[2].url

----------------------------------------------------------------------------
(* C19 *)

\* what navigation, extraction, snapshot, ledger append and alert change
work_vars == <<page_url, navs, calls, result, snapshots, ledger, posts>>

\* C19: within a run the browser connected at line 86 is closed only by the
\* finally clause, when the product loop has ended, and only once: it is
\* closed when the run is over, a closed browser is never closed again or
\* reconnected, and after the close no navigation, extraction, snapshot,
\* ledger append or alert happens.
C19_ClosedOnceAfterLoop ==
    /\ [](browser = "closed" => RunOver)
    /\ [](RunOver => browser # "connected")
    /\ [][(browser' = "closed" /\ browser # "closed") =>
              (pc = "finally" /\ browser = "connected")]_vars
    /\ [][browser = "closed" => UNCHANGED <<browser, work_vars>>]_vars

\* the browser has been closed after a loop in which one product failed and
\* the next one got its row and its alert
C19_Witness ==
    /\ Len(products) = 2
    /\ pc = "done"
    /\ browser = "closed"
    /\ LogHas("error", 1)
    /\ RowsOf(2) # {}
    /\ PostsOf(2) # {}

====
